---- MODULE Spec2Model ----
(***************************************************************************)
(* Identity reconciliation and session bridging of the marketplace         *)
(* backend: the login_required gate, /api/auth/register, /api/auth/login   *)
(* and /api/auth/logout of application.py over the users table of          *)
(* database.py.                                                            *)
(*                                                                         *)
(* The model follows one client's cookie session against the shared users *)
(* table.  The client sends a request, the server handles it in one step   *)
(* from the first line of the view to its return, and the response goes    *)
(* back.  What the collaborators do during the handling is chosen in that  *)
(* step: whether the database answers the query and the commit, and which  *)
(* row an unordered .first() returns.                                      *)
(*                                                                         *)
(* A property that says what a handler does with a request is stated for   *)
(* the requests during which the database answers; the properties about    *)
(* failures name the failure.                                              *)
(*                                                                         *)
(* Four specifications share the variables.  Spec follows the gate and     *)
(* the auth endpoints for one client.  RaceSpec lets the register, login   *)
(* and profile-update calls of two clients interleave between query and    *)
(* commit.  UploadSpec follows POST /api/resources with its image upload   *)
(* and the views that read the listings back.  OwnerSpec follows PUT and   *)
(* DELETE /api/resources/<id> on listings two users have posted.           *)
(***************************************************************************)
EXTENDS Integers, FiniteSets, Sequences, TLC

\* Bounds of the model.
NumEmails == 2
NumTokens == 2

\* 'user_id' not in session; also "no row" for a query that returns None.
None == 0

Emails == 1..NumEmails
\* Token 0 is a credential the identity provider rejects; token t > 0 is one
\* it accepts, for the subject t.
Tokens == 0..NumTokens

\* request.headers.get('Authorization'): absent, present without the
\* 'Bearer ' prefix, or 'Bearer <token>'.
Headers ==
    {[kind |-> "none", token |-> 0], [kind |-> "malformed", token |-> 0]}
        \cup {[kind |-> "bearer", token |-> t] : t \in Tokens}

\* The JSON body: request.json is missing, has no 'email' key, or has one.
NoBody == -1
NoEmail == 0
Bodies == {NoBody, NoEmail} \cup Emails

\* What the database does to the request: answers, fails the query, or
\* fails the commit.
Faults == {"none", "query", "commit"}

VARIABLES
    users,      \* the users table: a set of rows [id, email, firebase_uid]
    session,    \* session['user_id'] of the client's cookie session, or None
    devMode,    \* os.getenv('FLASK_ENV') == 'development'
    gateId,     \* history: the id the gate's token path wrote into the
                \* session, kept until the client logs out
    rewritten,  \* history: register or login has written the session since
                \* the gate did
    pc,         \* "idle", "pending" (request sent) or "done" (answered)
    req,        \* the request in flight
    resp,       \* its response, with what the handler saw and did
    resources,  \* the resources table: a set of rows [id, owner_id,
                \* image_url, is_available]
    files,      \* the names of the files under static/uploads
    bucket,     \* the keys of the objects in the S3 bucket
    s3_client,  \* the module's s3_client is set (AWS_ACCESS_KEY_ID given)
    is_vercel,  \* os.environ.get('VERCEL')
    calls       \* for each of two concurrent clients, its call in progress

\* What the image upload and the listings work on.
uploadVars == <<resources, files, bucket, s3_client, is_vercel>>

vars ==
    <<users, session, devMode, gateId, rewritten, pc, req, resp, uploadVars,
      calls>>

----------------------------------------------------------------------------
\* The users table (database.py, class User).

NoUser == [id |-> None, email |-> NoEmail, firebase_uid |-> None]

\* unique=True on email and on firebase_uid; id is the primary key.
UniqueRows(rows) ==
    \A a, b \in rows :
        (a.id = b.id \/ a.email = b.email \/ a.firebase_uid = b.firebase_uid)
            => a = b

CommitOk_NoConstraint(rows, fault) == fault # "commit"

\* db.session.commit(): the write reaches the table unless the database
\* fails it or a unique constraint rejects it.
CommitOk(rows, fault) == fault # "commit" /\ UniqueRows(rows)

\* The autoincrement primary key of a new row: one more than the largest
\* id in the table.
NextId(rows) ==
    IF rows = {} THEN 1
    ELSE 1 + CHOOSE m \in {r.id : r \in rows} : \A r \in rows : r.id <= m

\* User.query.filter_by(firebase_uid=uid)
FilterByUid(uid) == {u \in users : u.firebase_uid = uid}

\* User.query.filter((User.email == email) | (User.firebase_uid == uid))
FilterByEmailOrUid(email, uid) ==
    {u \in users : u.email = email \/ u.firebase_uid = uid}

\* .first() of an unordered query: any matching row, or None.
First(rows) == IF rows = {} THEN {NoUser} ELSE rows

----------------------------------------------------------------------------
\* The identity verifier and the header.

StartsWithBearer_AnyHeader(h) == h.kind # "none"

\* auth_header.startswith('Bearer ')
StartsWithBearer(h) == h.kind = "bearer"

\* auth.verify_id_token(id_token)['uid']: the subject of an accepted token,
\* None when the verifier raises.
VerifyIdToken(t) == IF t > 0 THEN t ELSE None

\* firebase_uid = id_token: in development the raw token string is the uid.
\* It is never the uid the verifier would decode from that token.
RawTokenUid(t) == -(t + 1)

----------------------------------------------------------------------------
\* Responses.

Json(status, msg) == [kind |-> "json", status |-> status, msg |-> msg]
Redirect == [kind |-> "redirect", status |-> 302, msg |-> "login?next"]
\* the wrapped view function runs
CallView == [kind |-> "view", status |-> 200, msg |-> "f"]

WantsJson_PathOnly(isJson, apiPath) == apiPath

\* request.is_json or request.path.startswith('/api/')
WantsJson(isJson, apiPath) == isJson \/ apiPath

Reject(isJson, apiPath, status, msg) ==
    IF WantsJson(isJson, apiPath) THEN Json(status, msg) ELSE Redirect

----------------------------------------------------------------------------
\* login_required (application.py 129-162).  A gate result says what is
\* returned, whether the verifier was called, the uid it decoded, the id
\* written to session['user_id'] (None: no write) and the id the wrapped
\* view runs as (None: the view does not run).

GateResult(ret, verifier, uid, write, userId) ==
    [resp |-> ret, verifier |-> verifier, uid |-> uid, write |-> write,
     userId |-> userId]

\* lines 136-139: no usable Authorization header
GateNoBearer(isJson, apiPath) ==
    GateResult(Reject(isJson, apiPath, 401, "Authentication required"),
               FALSE, None, None, None)

GateExcept_PartialWrite(isJson, apiPath, uid) ==
    GateResult(Reject(isJson, apiPath, 401, "Invalid authentication token"),
               TRUE, uid, 1, None)

\* lines 156-159: except Exception, around the verifier call, the query and
\* the session write alike
GateExcept(isJson, apiPath, uid) ==
    GateResult(Reject(isJson, apiPath, 401, "Invalid authentication token"),
               TRUE, uid, None, None)

GateUserMissing_Unchecked(isJson, apiPath, uid) ==
    GateExcept(isJson, apiPath, uid)

\* lines 149-152: the token is good and no row has its uid
GateUserMissing(isJson, apiPath, uid) ==
    GateResult(Reject(isJson, apiPath, 404, "User not found"),
               TRUE, uid, None, None)

GateAdmit_NoSessionWrite(uid, user) ==
    GateResult(CallView, TRUE, uid, None, user.id)

\* lines 154-155, 161: session['user_id'] = user.id, then the view
GateAdmit(uid, user) ==
    GateResult(CallView, TRUE, uid, user.id, user.id)

\* lines 141-155: the bearer path
GateToken(h, isJson, apiPath, fault, user) ==
    LET uid == VerifyIdToken(h.token)
    IN  IF uid = None THEN GateExcept(isJson, apiPath, None)
        ELSE IF fault = "query" THEN GateExcept(isJson, apiPath, uid)
        ELSE IF user = NoUser THEN GateUserMissing(isJson, apiPath, uid)
        ELSE GateAdmit(uid, user)

LoginRequired_NoSessionCheck(sess, h, isJson, apiPath, fault, user) ==
    IF ~StartsWithBearer(h) THEN GateNoBearer(isJson, apiPath)
    ELSE GateToken(h, isJson, apiPath, fault, user)

\* lines 131-161
LoginRequired(sess, h, isJson, apiPath, fault, user) ==
    IF sess # None THEN GateResult(CallView, FALSE, None, None, sess)
    ELSE IF ~StartsWithBearer(h) THEN GateNoBearer(isJson, apiPath)
    ELSE GateToken(h, isJson, apiPath, fault, user)

----------------------------------------------------------------------------
\* /api/auth/register and /api/auth/login.  A result says what is returned,
\* whether the verifier was called, the uid presented, the users table after
\* the request, the id written to session['user_id'] (None: no write) and
\* the id of the user in the response body (None: none).

AuthResult(ret, verifier, uid, rows, write, userId) ==
    [resp |-> ret, verifier |-> verifier, uid |-> uid, rows |-> rows,
     write |-> write, userId |-> userId]

\* lines 229-236 and 307-316: the uid the handler takes from the token
TokenUid(t) == IF devMode THEN RawTokenUid(t) ELSE VerifyIdToken(t)

Reconciled_NotAssigned(user, uid) == user

\* existing_user.firebase_uid = firebase_uid (lines 245 and 339)
Reconciled(user, uid) == [user EXCEPT !.firebase_uid = uid]

\* the table with the row of this id replaced
Updated(rows, row) == {u \in rows : u.id # row.id} \cup {row}

RegisterFailed_SessionFirst(uid, rows, id) ==
    AuthResult(Json(500, "str(e)"), ~devMode, uid, users, id, None)

\* lines 282-284: an exception anywhere in the handler rolls the pending
\* write back and answers 500
RegisterFailed(uid, rows, id) ==
    AuthResult(Json(500, "str(e)"), ~devMode, uid, users, None, None)

RegisterDone_NotPersisted(uid, rows, id, msg) ==
    AuthResult(Json(200, msg), ~devMode, uid, users, id, id)

\* lines 247-256 and 271-281: the session write and the 200 response
RegisterDone(uid, rows, id, msg) ==
    AuthResult(Json(200, msg), ~devMode, uid, rows, id, id)

\* lines 242-256: the query found a row
RegisterExisting(uid, fault, existing) ==
    IF existing.firebase_uid # uid
    THEN LET rows == Updated(users, Reconciled(existing, uid))
         IN  IF CommitOk(rows, fault)
             THEN RegisterDone(uid, rows, existing.id,
                               "User already exists, updated Firebase UID")
             ELSE RegisterFailed(uid, rows, existing.id)
    ELSE RegisterDone(uid, users, existing.id,
                      "User already exists, updated Firebase UID")

RegisterNew_Replaces(uid, email, fault) ==
    LET user == [id |-> NextId(users), email |-> email, firebase_uid |-> uid]
        rows == {u \in users : u.email # email /\ u.firebase_uid # uid}
                    \cup {user}
    IN  IF CommitOk(rows, fault)
        THEN RegisterDone(uid, rows, user.id, "Registration successful")
        ELSE RegisterFailed(uid, rows, user.id)

\* lines 258-281: no row found, a new one is added
RegisterNew(uid, email, fault) ==
    LET user == [id |-> NextId(users), email |-> email, firebase_uid |-> uid]
        rows == users \cup {user}
    IN  IF CommitOk(rows, fault)
        THEN RegisterDone(uid, rows, user.id, "Registration successful")
        ELSE RegisterFailed(uid, rows, user.id)

\* lines 219-284
Register(h, body, fault, existing) ==
    IF ~StartsWithBearer(h)
    THEN AuthResult(Json(401, "No Bearer token provided"),
                    FALSE, None, users, None, None)
    ELSE LET uid == TokenUid(h.token)
         IN  IF uid = None
             THEN AuthResult(Json(401, "Invalid ID token"),
                             TRUE, None, users, None, None)
             \* data['email'] raises KeyError; the query raises
             ELSE IF body = NoEmail \/ fault = "query"
             THEN RegisterFailed(uid, users, None)
             ELSE IF existing # NoUser
             THEN RegisterExisting(uid, fault, existing)
             ELSE RegisterNew(uid, body, fault)

LoginNotFound_Creates(uid, body) ==
    LET user == [id |-> NextId(users), email |-> body, firebase_uid |-> uid]
    IN  AuthResult(Json(200, "Login successful"), ~devMode, uid,
                   users \cup {user}, user.id, user.id)

\* lines 329-334
LoginNotFound(uid, body) ==
    AuthResult(Json(404, "USER_NOT_FOUND"), ~devMode, uid, users, None, None)

LoginUpdateFailed_SessionKept(uid, user) ==
    AuthResult(Json(500, "DATABASE_ERROR"), ~devMode, uid, users, user.id,
               None)

\* lines 342-349: the reconciling commit raised
LoginUpdateFailed(uid, user) ==
    AuthResult(Json(500, "DATABASE_ERROR"), ~devMode, uid, users, None, None)

\* lines 336-365
LoginFound(uid, fault, user) ==
    IF user.firebase_uid # uid
    THEN LET rows == Updated(users, Reconciled(user, uid))
         IN  IF CommitOk(rows, fault)
             THEN AuthResult(Json(200, "Login successful"), ~devMode, uid,
                             rows, user.id, user.id)
             ELSE LoginUpdateFailed(uid, user)
    ELSE AuthResult(Json(200, "Login successful"), ~devMode, uid, users,
                    user.id, user.id)

\* lines 287-372
ApiLogin(h, body, fault, user) ==
    IF body = NoBody
    THEN AuthResult(Json(400, "MISSING_DATA"), FALSE, None, users, None, None)
    ELSE IF ~StartsWithBearer(h)
    THEN AuthResult(Json(401, "MISSING_TOKEN"), FALSE, None, users, None, None)
    ELSE LET uid == TokenUid(h.token)
         IN  IF uid = None
             THEN AuthResult(Json(401, "INVALID_TOKEN"),
                             TRUE, None, users, None, None)
             ELSE IF fault = "query"
             THEN AuthResult(Json(500, "SERVER_ERROR"),
                             ~devMode, uid, users, None, None)
             ELSE IF user = NoUser THEN LoginNotFound(uid, body)
             ELSE LoginFound(uid, fault, user)

----------------------------------------------------------------------------
\* Requests and responses.

Ops == {"gate", "register", "login", "logout"}

NoHeader == [kind |-> "none", token |-> 0]

\* request.method of the routes behind the gate and of the auth endpoints
Methods == {"GET", "POST"}

NewRequest(op, method, h, body, isJson, apiPath) ==
    [op |-> op, method |-> method, hdr |-> h, body |-> body,
     isJson |-> isJson, apiPath |-> apiPath]

NoRequest == NewRequest("none", "GET", NoHeader, NoBody, FALSE, FALSE)

\* The response, with the history of the handling: the fault the database
\* showed, the row .first() returned, the table and the session as they were
\* when the request came in, and, for a request that repeats the one
\* before, the user id that one returned.
Response(r, fault, found, after) ==
    [kind |-> r.resp.kind, status |-> r.resp.status, msg |-> r.resp.msg,
     verifier |-> r.verifier, uid |-> r.uid, userId |-> r.userId,
     fault |-> fault, found |-> found, usersBefore |-> users,
     sessBefore |-> session, gateIdBefore |-> gateId,
     rewrittenBefore |-> rewritten, after |-> after]

NoResponse ==
    [kind |-> "none", status |-> 0, msg |-> "", verifier |-> FALSE,
     uid |-> None, userId |-> None, fault |-> "none", found |-> NoUser,
     usersBefore |-> {}, sessBefore |-> None, gateIdBefore |-> None,
     rewrittenBefore |-> FALSE, after |-> None]

\* session['user_id'] = id
SessionSet(s, id) == IF id # None THEN id ELSE s

\* Two clients whose calls the host dispatches to concurrent workers.
Clients == {"a", "b"}

\* A client with no call in progress.
NoCall ==
    [pc |-> "idle", op |-> "none", hdr |-> NoHeader, body |-> NoBody,
     found |-> NoUser, fault |-> "none", status |-> 0, userId |-> None]

\* No listing, no uploaded file, no object storage, not on Vercel.
NoUploads ==
    /\ resources = {}
    /\ files = {}
    /\ bucket = {}
    /\ s3_client = FALSE
    /\ is_vercel = FALSE

Init ==
    /\ users = {}
    /\ session = None
    /\ devMode \in BOOLEAN
    /\ gateId = None
    /\ rewritten = FALSE
    /\ pc = "idle"
    /\ req = NoRequest
    /\ resp = NoResponse
    /\ NoUploads
    /\ calls = [c \in Clients |-> NoCall]

\* The client sends a request.  The auth endpoints are JSON POST requests
\* under /api/; a gated view is reached with any method, content type and
\* path.
Send(op, method, h, body, isJson, apiPath) ==
    /\ pc = "idle"
    /\ op # "gate" => method = "POST"
    /\ op = "gate" => body = NoBody
    /\ op = "register" => body # NoBody /\ isJson /\ apiPath
    /\ op = "login" => isJson /\ apiPath
    /\ op = "logout" => h = NoHeader /\ body = NoBody /\ isJson /\ apiPath
    /\ req' = NewRequest(op, method, h, body, isJson, apiPath)
    /\ pc' = "pending"
    /\ UNCHANGED <<users, session, devMode, gateId, rewritten, resp,
                   uploadVars, calls>>

\* The client sends the registration it has just had accepted once more.
Resend ==
    /\ pc = "done"
    /\ req.op = "register"
    /\ resp.status = 200
    /\ pc' = "pending"
    /\ UNCHANGED <<users, session, devMode, gateId, rewritten, req, resp,
                   uploadVars, calls>>

\* The user id returned by the request this one repeats, if it repeats one.
Repeats == IF resp.status = 200 THEN resp.userId ELSE None

\* A request to a view wrapped in @login_required.
GateRequest(fault) ==
    /\ pc = "pending"
    /\ req.op = "gate"
    /\ \E user \in First(FilterByUid(VerifyIdToken(req.hdr.token))) :
        LET r == LoginRequired(session, req.hdr, req.isJson, req.apiPath,
                               fault, user)
        IN  /\ session' = SessionSet(session, r.write)
            /\ gateId' = SessionSet(gateId, r.write)
            /\ rewritten' = (rewritten /\ r.write = None)
            /\ resp' = Response(r, fault, user, None)
    /\ pc' = "done"
    /\ UNCHANGED <<users, devMode, req, uploadVars, calls>>

\* POST /api/auth/register
RegisterRequest(fault) ==
    /\ pc = "pending"
    /\ req.op = "register"
    /\ \E existing \in
            First(FilterByEmailOrUid(req.body, TokenUid(req.hdr.token))) :
        LET r == Register(req.hdr, req.body, fault, existing)
        IN  /\ users' = r.rows
            /\ session' = SessionSet(session, r.write)
            /\ rewritten' = (gateId # None /\ (rewritten \/ r.write # None))
            /\ resp' = Response(r, fault, existing, Repeats)
    /\ pc' = "done"
    /\ UNCHANGED <<devMode, gateId, req, uploadVars, calls>>

\* POST /api/auth/login
ApiLoginRequest(fault) ==
    /\ pc = "pending"
    /\ req.op = "login"
    /\ \E user \in
            First(FilterByEmailOrUid(req.body, TokenUid(req.hdr.token))) :
        LET r == ApiLogin(req.hdr, req.body, fault, user)
        IN  /\ users' = r.rows
            /\ session' = SessionSet(session, r.write)
            /\ rewritten' = (gateId # None /\ (rewritten \/ r.write # None))
            /\ resp' = Response(r, fault, user, None)
    /\ pc' = "done"
    /\ UNCHANGED <<devMode, gateId, req, uploadVars, calls>>

Logout_KeepsSession ==
    /\ pc = "pending"
    /\ req.op = "logout"
    /\ resp' = Response(AuthResult(Json(200, "Logged out successfully"),
                                   FALSE, None, users, None, None),
                        "none", NoUser, None)
    /\ pc' = "done"
    /\ UNCHANGED <<users, session, devMode, gateId, rewritten, req,
                   uploadVars, calls>>

\* POST /api/auth/logout (lines 374-377): session.pop('user_id', None)
Logout ==
    /\ pc = "pending"
    /\ req.op = "logout"
    /\ session' = None
    /\ gateId' = None
    /\ rewritten' = FALSE
    /\ resp' = Response(AuthResult(Json(200, "Logged out successfully"),
                                   FALSE, None, users, None, None),
                        "none", NoUser, None)
    /\ pc' = "done"
    /\ UNCHANGED <<users, devMode, req, uploadVars, calls>>

\* The response reaches the client.
Respond ==
    /\ pc = "done"
    /\ pc' = "idle"
    /\ req' = NoRequest
    /\ resp' = NoResponse
    /\ UNCHANGED <<users, session, devMode, gateId, rewritten, uploadVars,
                   calls>>

Next ==
    \/ /\ pc = "idle"
       /\ \E op \in Ops, method \in Methods, h \in Headers, body \in Bodies,
             isJson \in BOOLEAN, apiPath \in BOOLEAN :
                Send(op, method, h, body, isJson, apiPath)
    \/ Resend
    \/ \E fault \in {"none", "query"} : GateRequest(fault)
    \/ \E fault \in Faults : RegisterRequest(fault)
    \/ \E fault \in Faults : ApiLoginRequest(fault)
    \/ Logout
    \/ Respond

Spec == Init /\ [][Next]_vars

----------------------------------------------------------------------------
\* Properties of the gate.  They are read off the state in which a request
\* has just been answered: req is what the client sent, resp what came back
\* and what the handler saw.

Handled(op) == pc = "done" /\ req.op = op

\* The uid the identity verifier decodes from the request's token, None when
\* there is no bearer token or the verifier rejects it.
Verified ==
    IF req.hdr.kind = "bearer" THEN VerifyIdToken(req.hdr.token) ELSE None

\* The three rejections of the gate as the client sees them.
Unauthenticated ==
    IF req.isJson \/ req.apiPath
    THEN resp.kind = "json" /\ resp.status = 401
            /\ resp.msg = "Authentication required"
    ELSE resp.kind = "redirect"

InvalidCredential ==
    IF req.isJson \/ req.apiPath
    THEN resp.kind = "json" /\ resp.status = 401
            /\ resp.msg = "Invalid authentication token"
    ELSE resp.kind = "redirect"

UnknownUser ==
    IF req.isJson \/ req.apiPath
    THEN resp.kind = "json" /\ resp.status = 404
            /\ resp.msg = "User not found"
    ELSE resp.kind = "redirect"

\* C1: a gated request whose session already carries a user id runs the view
\* as that id, and the identity verifier is not called, whatever the
\* Authorization header holds.
C1_FastPath ==
    (Handled("gate") /\ resp.sessBefore # None)
        => /\ resp.kind = "view"
           /\ resp.userId = resp.sessBefore
           /\ ~resp.verifier
           /\ session = resp.sessBefore

\* C1 happens: a request with a session and a token the verifier would
\* reject has been let through.
C1_Witness ==
    /\ Handled("gate")
    /\ resp.sessBefore # None
    /\ req.hdr = [kind |-> "bearer", token |-> 0]
    /\ resp.kind = "view"

\* C2: with no user id in the session and an Authorization header that is
\* missing or does not start with 'Bearer ', the gate answers 401
\* "Authentication required" (or redirects to login) and does not call the
\* identity verifier.
C2_NoBearerUnauthenticated ==
    (Handled("gate") /\ resp.sessBefore = None /\ req.hdr.kind # "bearer")
        => /\ Unauthenticated
           /\ ~resp.verifier
           /\ resp.userId = None
           /\ session = None

\* C2 happens: a header without the prefix has been turned away.
C2_Witness ==
    /\ Handled("gate")
    /\ resp.sessBefore = None
    /\ req.hdr.kind = "malformed"
    /\ resp.status = 401

\* C3: with no user id in the session, a token the verifier accepts and a
\* lookup that finds no row with the verified uid, the gate answers 404
\* "User not found" (or redirects to login), leaves the session without a
\* user id and adds no row to the users table.
C3_UnknownUserNoRegistration ==
    (/\ Handled("gate")
     /\ resp.sessBefore = None
     /\ Verified # None
     /\ resp.fault = "none"
     /\ \A u \in resp.usersBefore : u.firebase_uid # Verified)
        => /\ UnknownUser
           /\ resp.userId = None
           /\ session = None
           /\ users = resp.usersBefore

\* C3 happens: a good token of a subject nobody registered got 404.
C3_Witness ==
    /\ Handled("gate")
    /\ resp.sessBefore = None
    /\ Verified # None
    /\ \A u \in resp.usersBefore : u.firebase_uid # Verified
    /\ resp.status = 404

\* C4: with no user id in the session and a 'Bearer <token>' header, a token
\* the verifier rejects is answered "Invalid authentication token", and
\* that answer is given only when the verifier rejected the token.
C4_InvalidCredentialIffRejected ==
    (Handled("gate") /\ resp.sessBefore = None /\ req.hdr.kind = "bearer"
        /\ (req.isJson \/ req.apiPath))
        => (InvalidCredential <=> Verified = None)

\* C5, as claimed: when the gate verifies a token and finds the row with
\* its uid, it writes the row's id into the session and runs the view as
\* that id; from then until logout every gated request of the session runs
\* as that id on the fast path, the verifier not called.
C5_UntilLogout ==
    /\ (Handled("gate") /\ resp.sessBefore = None /\ Verified # None
            /\ resp.fault = "none" /\ resp.found # NoUser)
            => /\ resp.kind = "view"
               /\ resp.found.firebase_uid = Verified
               /\ resp.userId = resp.found.id
               /\ session = resp.found.id
    /\ (Handled("gate") /\ resp.gateIdBefore # None)
            => /\ resp.kind = "view"
               /\ resp.userId = resp.gateIdBefore
               /\ ~resp.verifier
               /\ session = resp.gateIdBefore

\* C5, amended: the same, from then until logout or until register or login
\* writes the session.
C5_UntilLogoutOrReauth ==
    /\ (Handled("gate") /\ resp.sessBefore = None /\ Verified # None
            /\ resp.fault = "none" /\ resp.found # NoUser)
            => /\ resp.kind = "view"
               /\ resp.found.firebase_uid = Verified
               /\ resp.userId = resp.found.id
               /\ session = resp.found.id
    /\ (Handled("gate") /\ resp.gateIdBefore # None /\ ~resp.rewrittenBefore)
            => /\ resp.kind = "view"
               /\ resp.userId = resp.gateIdBefore
               /\ ~resp.verifier
               /\ session = resp.gateIdBefore

\* C5 happens: a later request of a session the gate established, sent with
\* no Authorization header, has run as the same id.
C5_Witness ==
    /\ Handled("gate")
    /\ resp.gateIdBefore # None
    /\ ~resp.rewrittenBefore
    /\ req.hdr.kind = "none"
    /\ resp.userId = resp.gateIdBefore

----------------------------------------------------------------------------
\* Properties of register and login.

\* The rows, as the request found the table, that hold the presented uid
\* and are not the given row.
OthersWithUid(row) ==
    {u \in resp.usersBefore : u.id # row.id /\ u.firebase_uid = resp.uid}

\* The handler changed the uid of the row it found and the write did not
\* persist: the commit failed or the unique constraint rejected it.
ReconcileFailed ==
    /\ resp.uid # None
    /\ resp.fault # "query"
    /\ resp.found # NoUser
    /\ resp.found.firebase_uid # resp.uid
    /\ (resp.fault = "commit" \/ OthersWithUid(resp.found) # {})

\* The handler found no row, added one and the commit failed.
InsertFailed ==
    /\ resp.uid # None
    /\ req.body \in Emails
    /\ resp.found = NoUser
    /\ resp.fault = "commit"

\* C6: a register call that repeats, with the same email and token, the
\* call answered just before it returns the same user id, and adds no row.
C6_RegisterIdempotent ==
    (Handled("register") /\ resp.after # None /\ resp.fault = "none")
        => /\ resp.status = 200
           /\ resp.userId = resp.after
           /\ Cardinality(users) = Cardinality(resp.usersBefore)

\* C7, as claimed: register with the email of an existing row and a uid
\* other than the one stored on it sets that row's uid to the presented one,
\* returns the row's id, writes it into the session and adds no row.
C7_ReconcilesInPlace ==
    \A a \in resp.usersBefore :
        (/\ Handled("register")
         /\ resp.uid # None
         /\ resp.fault = "none"
         /\ a.email = req.body
         /\ a.firebase_uid # resp.uid)
            => /\ resp.status = 200
               /\ resp.userId = a.id
               /\ session = a.id
               /\ users = Updated(resp.usersBefore,
                                  [a EXCEPT !.firebase_uid = resp.uid])
               /\ Cardinality(users) = Cardinality(resp.usersBefore)

\* C7, amended: the same when no other row holds the presented uid.
C7_ReconcilesInPlaceWhenUidFree ==
    \A a \in resp.usersBefore :
        (/\ Handled("register")
         /\ resp.uid # None
         /\ resp.fault = "none"
         /\ a.email = req.body
         /\ a.firebase_uid # resp.uid
         /\ OthersWithUid(a) = {})
            => /\ resp.status = 200
               /\ resp.userId = a.id
               /\ session = a.id
               /\ users = Updated(resp.usersBefore,
                                  [a EXCEPT !.firebase_uid = resp.uid])
               /\ Cardinality(users) = Cardinality(resp.usersBefore)

\* C7 happens: a row has had its uid replaced by register.
C7_Witness ==
    /\ Handled("register")
    /\ resp.status = 200
    /\ resp.found # NoUser
    /\ resp.found.email = req.body
    /\ resp.found.firebase_uid # resp.uid
    /\ [resp.found EXCEPT !.firebase_uid = resp.uid] \in users

\* C8: login with an email and a uid that match no row answers 404
\* USER_NOT_FOUND, adds no row and does not write the session.
C8_LoginUserNotFound ==
    (/\ Handled("login")
     /\ req.body # NoBody
     /\ resp.uid # None
     /\ resp.fault # "query"
     /\ \A u \in resp.usersBefore :
            u.email # req.body /\ u.firebase_uid # resp.uid)
        => /\ resp.status = 404
           /\ resp.msg = "USER_NOT_FOUND"
           /\ resp.userId = None
           /\ users = resp.usersBefore
           /\ session = resp.sessBefore

\* C8 happens: a login for an unknown email and uid, with other users in
\* the table, got 404.
C8_Witness ==
    /\ Handled("login")
    /\ req.body \in Emails
    /\ resp.uid # None
    /\ resp.usersBefore # {}
    /\ resp.status = 404

\* C9: when login succeeds, the row whose id is in the session stores the
\* presented uid; when the reconciling commit fails, login answers 500 and
\* neither the session nor the table changes.
C9_LoginReconcilesFirst ==
    /\ (Handled("login") /\ resp.status = 200)
            => \E u \in users :
                    /\ u.id = session
                    /\ u.id = resp.userId
                    /\ u.firebase_uid = resp.uid
    /\ (Handled("login") /\ ReconcileFailed)
            => /\ resp.status = 500
               /\ session = resp.sessBefore
               /\ users = resp.usersBefore

\* C9 happens: a login has replaced the row's uid and then set the session.
C9_Witness ==
    /\ Handled("login")
    /\ resp.status = 200
    /\ resp.found.firebase_uid # resp.uid
    /\ session = resp.found.id
    /\ [resp.found EXCEPT !.firebase_uid = resp.uid] \in users

\* C10: when the commit of register fails, the answer is the 500 JSON
\* response, the users table is as the request found it and the session is
\* not written.
C10_RegisterRollsBack ==
    (Handled("register") /\ (InsertFailed \/ ReconcileFailed))
        => /\ resp.kind = "json"
           /\ resp.status = 500
           /\ resp.userId = None
           /\ users = resp.usersBefore
           /\ session = resp.sessBefore

\* C10 happens: the insert of a new row failed at commit.
C10_Witness ==
    /\ Handled("register")
    /\ resp.found = NoUser
    /\ resp.fault = "commit"
    /\ resp.uid # None
    /\ req.body \in Emails
    /\ resp.status = 500

----------------------------------------------------------------------------
\* Concurrent calls.  The host dispatches the calls of different clients to
\* independent workers, and nothing in the application orders them: between
\* the query of one call and its commit, the calls of another client may
\* query and commit.  A call here takes two steps, the handler up to and
\* including its query, and the handler from there to its return.  Each
\* client has its own cookie session; what its call answers is kept until the
\* response is returned.

\* PUT /api/user/profile (lines 818-840) behind the gate's fast path: the row
\* of session['user_id'] gets the name, phone, location and language of the
\* body, none of them a column of this model, and the change is committed.
UpdateProfile(fault, user) ==
    IF fault = "none" /\ user # NoUser
    THEN AuthResult(Json(200, "Profile updated successfully"),
                    FALSE, None, users, None, user.id)
    ELSE AuthResult(Json(500, "str(e)"), FALSE, None, users, None, None)

Bearer(t) == [kind |-> "bearer", token |-> t]

\* The view of the call, run with the row its query returned.
View(op, h, body, fault, found) ==
    IF op = "register" THEN Register(h, body, fault, found)
    ELSE IF op = "login" THEN ApiLogin(h, body, fault, found)
    ELSE UpdateProfile(fault, found)

\* The call of client c as answered, with what the database did to its
\* commit.
Answered(c, fault, r) ==
    [pc |-> "done", op |-> calls[c].op, hdr |-> calls[c].hdr,
     body |-> calls[c].body, found |-> calls[c].found, fault |-> fault,
     status |-> r.resp.status, userId |-> r.userId]

\* A call between its query and its commit, with the row the query returned.
Queried(op, h, body, found) ==
    [pc |-> "queried", op |-> op, hdr |-> h, body |-> body, found |-> found,
     fault |-> "none", status |-> 0, userId |-> None]

\* No response is waiting to be returned.  A new call starts only then, so
\* that two answered calls are two calls that ran together: each made its
\* query before the other made its commit.
AllReturned == \A c \in Clients : calls[c].pc # "done"

\* The production configuration: FLASK_ENV is not 'development', and the
\* uid is the one the verifier decodes.
RaceInit ==
    /\ users = {}
    /\ session = None
    /\ devMode = FALSE
    /\ gateId = None
    /\ rewritten = FALSE
    /\ pc = "idle"
    /\ req = NoRequest
    /\ resp = NoResponse
    /\ NoUploads
    /\ calls = [c \in Clients |-> NoCall]

\* Register or login, from the first line to the query (lines 219-241 and
\* 287-327), with a token the verifier accepts and a query the database
\* answers: a call answered before its query, or at it, writes nothing.
Query(c, op, t, email) ==
    /\ calls[c].pc = "idle"
    /\ AllReturned
    /\ op \in {"register", "login"}
    /\ TokenUid(t) # None
    /\ \E found \in First(FilterByEmailOrUid(email, TokenUid(t))) :
            calls' = [calls EXCEPT ![c] =
                            Queried(op, Bearer(t), email, found)]
    /\ UNCHANGED <<users, session, devMode, gateId, rewritten, pc, req, resp,
                   uploadVars>>

\* The profile update of a client whose session holds the id of a row, up to
\* User.query.get(session['user_id']) (lines 820-822).
QueryProfile(c, user) ==
    /\ calls[c].pc = "idle"
    /\ AllReturned
    /\ user \in users
    /\ calls' = [calls EXCEPT ![c] =
                    Queried("profile", NoHeader, NoBody, user)]
    /\ UNCHANGED <<users, session, devMode, gateId, rewritten, pc, req, resp,
                   uploadVars>>

\* The rest of the handler: the write, the commit and the response (lines
\* 242-284, 329-372 and 823-840), on the table as it is by now.
Commit(c, fault) ==
    /\ calls[c].pc = "queried"
    /\ LET k == calls[c]
           r == View(k.op, k.hdr, k.body, fault, k.found)
       IN  /\ users' = r.rows
           /\ calls' = [calls EXCEPT ![c] = Answered(c, fault, r)]
    /\ UNCHANGED <<session, devMode, gateId, rewritten, pc, req, resp,
                   uploadVars>>

\* The response reaches the client.
Return(c) ==
    /\ calls[c].pc = "done"
    /\ calls' = [calls EXCEPT ![c] = NoCall]
    /\ UNCHANGED <<users, session, devMode, gateId, rewritten, pc, req, resp,
                   uploadVars>>

RaceNext ==
    \/ \E c \in Clients :
        /\ calls[c].pc = "idle"
        /\ \E op \in {"register", "login"}, t \in Tokens, email \in Emails :
                Query(c, op, t, email)
    \/ \E c \in Clients, user \in users : QueryProfile(c, user)
    \/ \E c \in Clients, fault \in {"none", "commit"} : Commit(c, fault)
    \/ \E c \in Clients : Return(c)

RaceSpec == RaceInit /\ [][RaceNext]_vars

\* C11: in every state of the users table that register, login and
\* profile-update calls reach, one after another or interleaved, no two rows
\* share an email and no two rows share a firebase_uid.
C11_UniqueEmailAndUid ==
    \A a, b \in users :
        (a.email = b.email \/ a.firebase_uid = b.firebase_uid) => a = b

\* C11 happens: the table holds two rows, and a call that set the uid of the
\* row it found to the uid of the other was refused.
C11_Witness ==
    \E c \in Clients :
        /\ calls[c].pc = "done"
        /\ calls[c].status = 500
        /\ calls[c].found # NoUser
        /\ \E u \in users :
                /\ u.id # calls[c].found.id
                /\ u.firebase_uid = TokenUid(calls[c].hdr.token)

----------------------------------------------------------------------------
\* Listings and their images: POST /api/resources with its image upload, and
\* the three views that read listings back.  One client, with its cookie
\* session, against a users table in which two users have registered.

\* Bound of the model: the listings created and the file names generated.
MaxResources == 2

\* application.config['MAX_CONTENT_LENGTH'], in MiB
MAX_CONTENT_LENGTH == 16

\* max_retries of the S3 upload loop
max_retries == 3

ALLOWED_EXTENSIONS == {"png", "jpg", "jpeg", "gif", "webp"}

\* request.files.get('image'): whether the part is there, whether it has a
\* filename, and what follows the last dot of the filename.
Attachments ==
    {[given |-> FALSE, named |-> FALSE, ext |-> ""],
     [given |-> TRUE, named |-> FALSE, ext |-> ""],
     [given |-> TRUE, named |-> TRUE, ext |-> "txt"],
     [given |-> TRUE, named |-> TRUE, ext |-> "bmp"],
     [given |-> TRUE, named |-> TRUE, ext |-> "png"]}

NoAttachment == [given |-> FALSE, named |-> FALSE, ext |-> ""]

\* The size of the file in MiB, and its declared content type.
Sizes == {1, 20}
ContentTypes == {"image/png", "text/plain"}
NoContentType == "application/octet-stream"

\* '.' in filename and filename.rsplit('.', 1)[1].lower() in
\* ALLOWED_EXTENSIONS
allowed_file(f) == f.ext \in ALLOWED_EXTENSIONS

\* file and file.filename and allowed_file(file.filename), line 575
ValidImage(f) == f.given /\ f.named /\ allowed_file(f)

\* content_type.startswith('image/')
StartsWithImage(ctype) == ctype = "image/png"

\* Image URLs: the directory or host, and the name of the file under it.
PlaceholderUrl == [prefix |-> "/static/images/", file |-> 0]
LocalUrl(name) == [prefix |-> "/static/uploads/", file |-> name]
S3Url(name) ==
    [prefix |-> "https://bucket.s3.region.amazonaws.com/", file |-> name]
NoUrl == [prefix |-> "", file |-> 0]

\* image_url.startswith('/static/')
StartsWithStatic(url) ==
    url.prefix \in {"/static/images/", "/static/uploads/"}

\* os.path.exists(file_path): the placeholder ships with the application
Exists(url) ==
    IF url.prefix = "/static/uploads/" THEN url.file \in files ELSE TRUE

\* lines 505-512 and 711-717: a URL under /static/ whose file is gone is
\* replaced by the placeholder
Validated(url) ==
    IF url = NoUrl THEN PlaceholderUrl
    ELSE IF StartsWithStatic(url) /\ ~Exists(url) THEN PlaceholderUrl
    ELSE url

\* The names uuid.uuid4() has produced so far that are still in use.
UsedNames ==
    files \cup bucket
        \cup {r.image_url.file : r \in {q \in resources :
                                            q.image_url # PlaceholderUrl}}

\* f"{uuid.uuid4()}_{filename}": a name no file, object or listing has
unique_filename ==
    CHOOSE n \in 1..(Cardinality(UsedNames) + 1) : n \notin UsedNames

\* What the upload part of create_resource did: the response it returned, if
\* it returned one, whether head_bucket was called and what it said, the
\* upload attempts made, the key put into the bucket, the name written to
\* disk, the image URL it arrived at, and what the retry loop did in order
\* (empty when the loop was not entered).
UploadResult(ret, head, attempts, put, saved, url) ==
    [resp |-> ret, head |-> head, attempts |-> attempts, put |-> put,
     saved |-> saved, url |-> url, log |-> <<>>]

NoReturn == [kind |-> "none", status |-> 0, msg |-> ""]

\* The steps of the retry loop: an upload_fileobj call that raised, one that
\* returned, and time.sleep(1).
Raised == "raised"
Uploaded == "uploaded"
Sleep1 == "sleep(1)"

\* How the loop ended: by break (ok) or by the return of line 634.
LoopResult(ok, log) == [ok |-> ok, log |-> log]

RECURSIVE RetryLoop(_, _, _)

RetryLoop_Once(attempt, failures, log) ==
    LoopResult(failures = 0, <<IF failures = 0 THEN Uploaded ELSE Raised>>)

\* lines 616-639: for attempt in range(max_retries), from the given attempt
\* on; the first `failures` calls of upload_fileobj raise.  Leaving the
\* range without break or return does not happen for max_retries > 0.
RetryLoop(attempt, failures, log) ==
    IF attempt >= max_retries THEN LoopResult(TRUE, log)
    ELSE IF attempt >= failures THEN LoopResult(TRUE, Append(log, Uploaded))
    ELSE IF attempt = max_retries - 1
    THEN LoopResult(FALSE, Append(log, Raised))
    ELSE RetryLoop(attempt + 1, failures, log \o <<Raised, Sleep1>>)

\* The calls of upload_fileobj in a run of the loop.
Attempts(log) == Cardinality({i \in DOMAIN log : log[i] # Sleep1})

\* lines 614-639: the upload with retry; failures is the number of attempts
\* that raise before one succeeds
S3Upload(name, failures) ==
    LET run == RetryLoop(0, failures, <<>>)
        up == IF run.ok
              THEN UploadResult(NoReturn, "ok", Attempts(run.log), name,
                                None, S3Url(name))
              ELSE UploadResult(Json(500, "Failed to upload image"),
                                "ok", Attempts(run.log), None, None, NoUrl)
    IN  [up EXCEPT !.log = run.log]

S3Branch_FallsBack(name, size, ctype, headOk, failures) ==
    IF size > MAX_CONTENT_LENGTH
    THEN UploadResult(Json(413, "File too large"),
                      "none", 0, None, None, NoUrl)
    ELSE IF ~StartsWithImage(ctype)
    THEN UploadResult(Json(415, "Invalid file type. Only images are allowed."),
                      "none", 0, None, None, NoUrl)
    ELSE IF ~headOk
    THEN UploadResult(NoReturn, "failed", 0, None, name, LocalUrl(name))
    ELSE S3Upload(name, failures)

\* lines 582-646: the s3_client branch
S3Branch(name, size, ctype, headOk, failures) ==
    IF size > MAX_CONTENT_LENGTH
    THEN UploadResult(Json(413, "File too large"),
                      "none", 0, None, None, NoUrl)
    ELSE IF ~StartsWithImage(ctype)
    THEN UploadResult(Json(415, "Invalid file type. Only images are allowed."),
                      "none", 0, None, None, NoUrl)
    ELSE IF ~headOk
    THEN UploadResult(Json(500, "Storage configuration error"),
                      "failed", 0, None, None, NoUrl)
    ELSE S3Upload(name, failures)

LocalBranch_SanitizedNameOnly(name, saveOk) ==
    IF saveOk
    THEN UploadResult(NoReturn, "none", 0, None, 1, LocalUrl(1))
    ELSE UploadResult(Json(500, "Failed to save image"),
                      "none", 0, None, None, NoUrl)

\* lines 649-658: the local disk branch
LocalBranch(name, saveOk) ==
    IF saveOk
    THEN UploadResult(NoReturn, "none", 0, None, name, LocalUrl(name))
    ELSE UploadResult(Json(500, "Failed to save image"),
                      "none", 0, None, None, NoUrl)

ResolveImage_NoFileCheck(f, size, ctype, headOk, failures, saveOk) ==
    IF s3_client
    THEN S3Branch(unique_filename, size, ctype, headOk, failures)
    ELSE IF ~is_vercel THEN LocalBranch(unique_filename, saveOk)
    ELSE UploadResult(
            Json(500, "Image upload not available - S3 not configured"),
            "none", 0, None, None, NoUrl)

\* lines 570-663: from the file of the request to its image URL
ResolveImage(f, size, ctype, headOk, failures, saveOk) ==
    IF ~ValidImage(f)
    THEN UploadResult(NoReturn, "none", 0, None, None, PlaceholderUrl)
    ELSE IF s3_client
    THEN S3Branch(unique_filename, size, ctype, headOk, failures)
    ELSE IF ~is_vercel THEN LocalBranch(unique_filename, saveOk)
    ELSE UploadResult(
            Json(500, "Image upload not available - S3 not configured"),
            "none", 0, None, None, NoUrl)

\* What create_resource did: the upload with the image URL it arrived at, and
\* the row it added (NoResource: none).
NoResource ==
    [id |-> None, owner_id |-> None, image_url |-> NoUrl,
     is_available |-> FALSE]

CreateResult(ret, up, row) ==
    [resp |-> ret, head |-> up.head, attempts |-> up.attempts,
     put |-> up.put, saved |-> up.saved, url |-> up.url, log |-> up.log,
     row |-> row]

NoUpload == UploadResult(NoReturn, "none", 0, None, None, NoUrl)

\* What the collaborators do during one create_resource: whether Flask
\* limits the body it reads, whether head_bucket answers, how many upload
\* attempts raise, whether file.save() works, and what the database does.
Env(limited, headOk, failures, saveOk, fault) ==
    [limited |-> limited, headOk |-> headOk, failures |-> failures,
     saveOk |-> saveOk, fault |-> fault]

\* lines 568-697.  Flask refuses to read a request body larger than
\* MAX_CONTENT_LENGTH when it can tell (limited): request.files raises
\* inside the try, and the except at 695 answers.
create_resource(userId, f, size, ctype, formOk, env) ==
    IF f.given /\ size > MAX_CONTENT_LENGTH /\ env.limited
    THEN CreateResult(Json(500, "str(e)"), NoUpload, NoResource)
    ELSE LET up == ResolveImage(f, size, ctype, env.headOk, env.failures,
                                env.saveOk)
             \* is_available takes the column's default (database.py 95)
             row == [id |-> NextId(resources), owner_id |-> userId,
                     image_url |-> up.url, is_available |-> TRUE]
         IN  IF up.resp # NoReturn THEN CreateResult(up.resp, up, NoResource)
             \* request.form['name'] raises; the commit raises
             ELSE IF ~formOk \/ env.fault # "none"
             THEN CreateResult(Json(500, "str(e)"), up, NoResource)
             ELSE CreateResult(Json(200, "Resource added successfully"),
                               up, row)

\* One entry of a listing response: the listing and the image URL shown.
Shown(r, url) == [id |-> r.id, image_url |-> url]

\* lines 475-537: GET /api/resources, every listing with its image URL
\* validated
get_resources == {Shown(r, Validated(r.image_url)) : r \in resources}

\* lines 699-744: GET /api/resources/<id>
get_resource_detail(resource_id) ==
    {Shown(r, Validated(r.image_url)) :
        r \in {q \in resources : q.id = resource_id}}

\* lines 541-564: GET /api/resources/my, the listings of the session's user
\* with image_url as stored
get_my_resources(userId) ==
    {Shown(r, r.image_url) : r \in {q \in resources : q.owner_id = userId}}

\* The request of a listing view: the Authorization header, the image part
\* with its size and content type, whether the form has the required
\* fields, and the id in the path.
ListingRequest(op, h, f, size, ctype, formOk, rid) ==
    [op |-> op, method |-> IF op = "create" THEN "POST" ELSE "GET",
     hdr |-> h, file |-> f, size |-> size, ctype |-> ctype,
     formOk |-> formOk, rid |-> rid, isJson |-> FALSE, apiPath |-> TRUE]

\* The response, with the history of the handling: what the gate and the
\* upload did, the entries shown, what the collaborators were asked to do
\* (fault, saveOk), and the tables, the disk and the bucket as the request
\* found them.
ListingResponse(g, c, shown, fault, saveOk) ==
    [kind |-> c.resp.kind, status |-> c.resp.status, msg |-> c.resp.msg,
     admitted |-> g.resp = CallView, userId |-> g.userId,
     head |-> c.head, attempts |-> c.attempts, put |-> c.put,
     saved |-> c.saved, url |-> c.url, log |-> c.log, row |-> c.row,
     shown |-> shown,
     fault |-> fault, saveOk |-> saveOk,
     sessBefore |-> session, resourcesBefore |-> resources,
     filesBefore |-> files, bucketBefore |-> bucket]

\* A view that returns without touching storage or the resources table.
Plain(ret) == CreateResult(ret, NoUpload, NoResource)

\* The gate let the public views through.
Public == GateResult(CallView, FALSE, None, None, None)

\* Two users have registered; the client has no session yet.  Object storage
\* and the deployment target are as the environment sets them.
UploadInit ==
    /\ users = {[id |-> 1, email |-> 1, firebase_uid |-> 1],
                [id |-> 2, email |-> 2, firebase_uid |-> 2]}
    /\ session = None
    /\ devMode = FALSE
    /\ gateId = None
    /\ rewritten = FALSE
    /\ pc = "idle"
    /\ req = NoRequest
    /\ resp = NoResponse
    /\ resources = {}
    /\ files = {}
    /\ bucket = {}
    /\ s3_client \in BOOLEAN
    /\ is_vercel \in BOOLEAN
    /\ calls = [c \in Clients |-> NoCall]

\* The client posts a listing.  Without a file the image part is missing or
\* empty: no filename, no bytes.
SendCreate(h, f, size, ctype, formOk) ==
    /\ pc = "idle"
    /\ Cardinality(resources) < MaxResources
    /\ Cardinality(UsedNames) < MaxResources
    /\ IF f.given /\ f.named THEN size \in Sizes /\ ctype \in ContentTypes
       ELSE size = 0 /\ ctype = NoContentType
    /\ req' = ListingRequest("create", h, f, size, ctype, formOk, None)
    /\ pc' = "pending"
    /\ UNCHANGED <<users, session, devMode, gateId, rewritten, resp,
                   uploadVars, calls>>

\* The client asks for the public listing, for one listing, or for its own.
SendRead(op, h, rid) ==
    /\ pc = "idle"
    /\ op \in {"list", "detail", "my"}
    /\ op # "my" => h = NoHeader
    /\ op # "detail" => rid = None
    /\ op = "detail" => rid # None
    /\ req' = ListingRequest(op, h, NoAttachment, 0, NoContentType, TRUE, rid)
    /\ pc' = "pending"
    /\ UNCHANGED <<users, session, devMode, gateId, rewritten, resp,
                   uploadVars, calls>>

\* POST /api/resources, from the gate to the response.
CreateRequest(limited, headOk, failures, saveOk, fault) ==
    /\ pc = "pending"
    /\ req.op = "create"
    /\ \E user \in First(FilterByUid(VerifyIdToken(req.hdr.token))) :
        LET g == LoginRequired(session, req.hdr, req.isJson, req.apiPath,
                               "none", user)
            c == IF g.resp = CallView
                 THEN create_resource(g.userId, req.file, req.size,
                                      req.ctype, req.formOk,
                                      Env(limited, headOk, failures, saveOk,
                                          fault))
                 ELSE Plain(g.resp)
        IN  /\ session' = SessionSet(session, g.write)
            /\ gateId' = SessionSet(gateId, g.write)
            /\ resources' = IF c.row = NoResource THEN resources
                            ELSE resources \cup {c.row}
            /\ files' = IF c.saved = None THEN files
                        ELSE files \cup {c.saved}
            /\ bucket' = IF c.put = None THEN bucket
                         ELSE bucket \cup {c.put}
            /\ resp' = ListingResponse(g, c, {}, fault, saveOk)
    /\ pc' = "done"
    /\ UNCHANGED <<users, devMode, rewritten, req, s3_client, is_vercel,
                   calls>>

\* GET /api/resources, /api/resources/<id> and /api/resources/my.
ReadRequest(fault) ==
    /\ pc = "pending"
    /\ req.op \in {"list", "detail", "my"}
    /\ \E user \in First(FilterByUid(VerifyIdToken(req.hdr.token))) :
        LET g == IF req.op = "my"
                 THEN LoginRequired(session, req.hdr, req.isJson,
                                    req.apiPath, "none", user)
                 ELSE Public
            shown == IF req.op = "list" THEN get_resources
                     ELSE IF req.op = "detail"
                     THEN get_resource_detail(req.rid)
                     ELSE get_my_resources(g.userId)
            c == IF g.resp # CallView THEN Plain(g.resp)
                 ELSE IF fault # "none" THEN Plain(Json(500, "str(e)"))
                 ELSE IF req.op = "detail" /\ shown = {}
                 THEN Plain(Json(404, "Resource not found"))
                 ELSE Plain(Json(200, "data"))
        IN  /\ session' = SessionSet(session, g.write)
            /\ gateId' = SessionSet(gateId, g.write)
            /\ resp' = ListingResponse(g, c,
                            IF c.resp.status = 200 THEN shown ELSE {},
                            fault, TRUE)
    /\ pc' = "done"
    /\ UNCHANGED <<users, devMode, rewritten, req, uploadVars, calls>>

\* A file under static/uploads is removed from outside the application.
DeleteFile(name) ==
    /\ pc = "idle"
    /\ name \in files
    /\ files' = files \ {name}
    /\ UNCHANGED <<users, session, devMode, gateId, rewritten, pc, req, resp,
                   resources, bucket, s3_client, is_vercel, calls>>

UploadNext ==
    \/ /\ pc = "idle"
       /\ \E h \in {NoHeader, Bearer(1), Bearer(2)}, f \in Attachments,
             size \in {0} \cup Sizes,
             ctype \in {NoContentType} \cup ContentTypes,
             formOk \in BOOLEAN :
                SendCreate(h, f, size, ctype, formOk)
    \/ /\ pc = "idle"
       /\ \E op \in {"list", "detail", "my"},
             h \in {NoHeader, Bearer(1), Bearer(2)},
             rid \in {None} \cup 1..MaxResources :
                SendRead(op, h, rid)
    \/ /\ pc = "pending"
       /\ \E limited \in BOOLEAN, headOk \in BOOLEAN,
             failures \in 0..max_retries, saveOk \in BOOLEAN,
             fault \in {"none", "commit"} :
                CreateRequest(limited, headOk, failures, saveOk, fault)
    \/ \E fault \in {"none", "query"} : ReadRequest(fault)
    \/ \E name \in 1..MaxResources : DeleteFile(name)
    \/ Respond

UploadSpec == UploadInit /\ [][UploadNext]_vars

----------------------------------------------------------------------------
\* Properties of the upload and of the listings read back.  They are read
\* off the state in which the request has just been answered.

\* The gate let the request through to create_resource.
Uploading == Handled("create") /\ resp.admitted

\* Nothing was asked of object storage and nothing was written.
NothingStored ==
    /\ resp.head = "none"
    /\ resp.attempts = 0
    /\ files = resp.filesBefore
    /\ bucket = resp.bucketBefore

\* C12: an upload larger than MAX_CONTENT_LENGTH is answered 413 before
\* head_bucket or an upload attempt is made, whether s3_client is set or
\* not, and no file is stored and no resource is created.
C12_TooLargeOnEveryPath ==
    (Uploading /\ ValidImage(req.file) /\ req.size > MAX_CONTENT_LENGTH)
        => /\ resp.status = 413
           /\ NothingStored
           /\ resources = resp.resourcesBefore

\* C13: an upload whose content type does not start with 'image/' is
\* answered 415, whether s3_client is set or not, and the file is not
\* stored.
C13_NotAnImageOnEveryPath ==
    (Uploading /\ ValidImage(req.file) /\ req.size <= MAX_CONTENT_LENGTH
        /\ ~StartsWithImage(req.ctype))
        => /\ resp.status = 415
           /\ files = resp.filesBefore
           /\ bucket = resp.bucketBefore

NamesBefore ==
    resp.filesBefore
        \cup {r.image_url.file : r \in {q \in resp.resourcesBefore :
                                            q.image_url # PlaceholderUrl}}

\* Without object storage, the file goes to the local disk under a new name
\* and gets the URL under /static/uploads/, or, on Vercel, the upload is
\* answered 500 and no resource is created.
LocalOrNoStorage ==
    /\ (~is_vercel /\ resp.saveOk)
            => /\ resp.saved # None
               /\ resp.saved \notin NamesBefore
               /\ files = resp.filesBefore \cup {resp.saved}
               /\ resp.url = LocalUrl(resp.saved)
               /\ resp.row # NoResource => resp.row.image_url = resp.url
    /\ is_vercel
            => /\ resp.status = 500
               /\ resp.msg = "Image upload not available - S3 not configured"
               /\ files = resp.filesBefore
               /\ resources = resp.resourcesBefore

\* C15, as claimed: when s3_client is not set and a file is supplied, within
\* the size limit and with an image content type, the file is written to
\* the local disk under a new name and gets a local URL; on Vercel the
\* upload is answered 500 and no resource is created.
C15_AnyFileSupplied ==
    (Uploading /\ ~s3_client /\ req.file.given /\ req.file.named
        /\ req.size <= MAX_CONTENT_LENGTH /\ StartsWithImage(req.ctype))
        => LocalOrNoStorage

\* C15, amended: the same for a file whose name has one of the allowed
\* extensions.
C15_AllowedFileSupplied ==
    (Uploading /\ ~s3_client /\ ValidImage(req.file)
        /\ req.size <= MAX_CONTENT_LENGTH /\ StartsWithImage(req.ctype))
        => LocalOrNoStorage

\* C15 happens: a second image has been written next to the first, under
\* another name.
C15_Witness ==
    /\ Uploading
    /\ ~s3_client
    /\ ValidImage(req.file)
    /\ resp.filesBefore # {}
    /\ resp.saved # None
    /\ resp.saved \notin resp.filesBefore
    /\ resp.status = 200

\* C16: when no file is supplied, the image URL is the placeholder, neither
\* object storage nor the local disk is touched, and the resource is
\* created with that URL.
C16_NoFilePlaceholder ==
    (Uploading /\ ~(req.file.given /\ req.file.named))
        => /\ resp.url = PlaceholderUrl
           /\ NothingStored
           /\ (req.formOk /\ resp.fault = "none")
                => /\ resp.status = 200
                   /\ resp.row.image_url = PlaceholderUrl
                   /\ resources = resp.resourcesBefore \cup {resp.row}

\* C16 happens: with object storage configured, a listing without an image
\* has been created.
C16_Witness ==
    /\ Uploading
    /\ s3_client
    /\ ~req.file.given
    /\ resp.status = 200
    /\ resp.row \in resources
    /\ resp.row.image_url = PlaceholderUrl

\* C17: each of the three views that read listings back shows the
\* placeholder for a stored local URL whose file is gone, and answers 200.
C17_EveryReadValidates ==
    (pc = "done" /\ req.op \in {"list", "detail", "my"} /\ resp.admitted
        /\ resp.fault = "none")
        => \A r \in resp.resourcesBefore :
                (/\ r.image_url.prefix = "/static/uploads/"
                 /\ r.image_url.file \notin files)
                    => \A e \in resp.shown :
                            e.id = r.id => e.image_url = PlaceholderUrl

----------------------------------------------------------------------------
\* Properties of the session's lifetime and of the shape of the gate's
\* rejections, under Spec.

\* C18: session['user_id'] is set only by a gate that has verified a token
\* and found its user, by a register or by a login answered 200, each to the
\* id it answers with; logout clears it; and while it is clear, as it is
\* from a logout to the next of those, a gated request without a bearer
\* token the verifier accepts is rejected and leaves it clear.
C18_SessionLifecycle ==
    /\ (pc = "done" /\ session # resp.sessBefore /\ session # None)
            => /\ session = resp.userId
               /\ \/ req.op = "gate" /\ resp.kind = "view" /\ Verified # None
                  \/ req.op \in {"register", "login"} /\ resp.status = 200
    /\ (pc = "done" /\ session # resp.sessBefore /\ session = None)
            => req.op = "logout"
    /\ Handled("logout") => session = None
    /\ (Handled("gate") /\ resp.sessBefore = None /\ Verified = None)
            => /\ resp.kind # "view"
               /\ resp.userId = None
               /\ session = None

\* C18 happens: a logout has cleared a session that held a user id.
C18_Witness ==
    /\ Handled("logout")
    /\ resp.sessBefore # None
    /\ session = None

\* C19: whichever of the three rejections the gate gives, and whatever the
\* method of the request, a request that is JSON or under /api/ gets a JSON
\* body with status 401 or 404 and no redirect, and any other request gets
\* the redirect to the login page with next set to the requested URL.
C19_RejectionShape ==
    (Handled("gate") /\ resp.kind # "view")
        => IF req.isJson \/ req.apiPath
           THEN resp.kind = "json" /\ resp.status \in {401, 404}
           ELSE resp.kind = "redirect" /\ resp.msg = "login?next"

\* C19 happens: a POST that is JSON but not under /api/, with a token of a
\* subject nobody registered, got the JSON 404.
C19_Witness ==
    /\ Handled("gate")
    /\ req.method = "POST"
    /\ req.isJson
    /\ ~req.apiPath
    /\ Verified # None
    /\ resp.kind = "json"
    /\ resp.status = 404

----------------------------------------------------------------------------
\* Properties of concurrent registration, under RaceSpec.  They are read off
\* the state in which the register calls of both clients have been answered
\* and neither response has been returned yet.

\* The uid the call of client c presented.
CallUid(c) == TokenUid(calls[c].hdr.token)

\* Both clients' register calls are answered, for the same email with
\* different uids or for the same uid with different emails, and the
\* database failed neither commit for a reason of its own.  The calls ran
\* concurrently, the query of each before the commit of the other.
RegisteredTogether ==
    /\ \A c \in Clients :
            /\ calls[c].pc = "done"
            /\ calls[c].op = "register"
            /\ calls[c].fault = "none"
    /\ \/ calls["a"].body = calls["b"].body /\ CallUid("a") # CallUid("b")
       \/ calls["a"].body # calls["b"].body /\ CallUid("a") = CallUid("b")

\* The rows of the key the two calls share.
RowsOfSharedKey ==
    IF calls["a"].body = calls["b"].body
    THEN {u \in users : u.email = calls["a"].body}
    ELSE {u \in users : u.firebase_uid = CallUid("a")}

\* One call is answered 200 and its row stores the email and the uid it
\* presented; the other is answered 500.
OneWinnerOneLoser ==
    \E w, l \in Clients :
        /\ w # l
        /\ calls[w].status = 200
        /\ calls[l].status = 500
        /\ [id |-> calls[w].userId, email |-> calls[w].body,
            firebase_uid |-> CallUid(w)] \in users

\* C20, as claimed: under every interleaving of the queries and commits of
\* two register calls that share an email or a uid, there is exactly one
\* row for that key in the end, one call is answered 500 and the row of the
\* other keeps the email and uid it presented.
C20_EveryInterleaving ==
    RegisteredTogether
        => /\ Cardinality(RowsOfSharedKey) = 1
           /\ OneWinnerOneLoser

\* C20, amended: the same when the queries of both calls found no row.
C20_BothFoundNoRow ==
    (RegisteredTogether /\ \A c \in Clients : calls[c].found = NoUser)
        => /\ Cardinality(RowsOfSharedKey) = 1
           /\ OneWinnerOneLoser

\* C20 happens: two calls for one email with different uids both found no
\* row, and one of them lost at the commit.
C20_Witness ==
    /\ RegisteredTogether
    /\ calls["a"].body = calls["b"].body
    /\ \A c \in Clients : calls[c].found = NoUser
    /\ calls["a"].status = 500
    /\ calls["b"].status = 200

----------------------------------------------------------------------------
\* Properties of the order of the commit and the session write, and of the
\* gate's rejections, under Spec.

\* The request in "done" went through the gate's token path, through
\* register or through login.
Authenticating ==
    \/ Handled("gate") /\ resp.sessBefore = None
    \/ Handled("register")
    \/ Handled("login")

\* The call was answered with success: the gate ran the view, register or
\* login answered 200.
Succeeded == IF req.op = "gate" THEN resp.kind = "view" ELSE resp.status = 200

\* The uid the call presented: the verified one at the gate, the one taken
\* from the token in register and login.
Presented == IF req.op = "gate" THEN Verified ELSE resp.uid

\* C21: a gate authentication, a register or a login that writes the
\* session writes the id of a row that is in the users table after the call
\* and stores the uid the call presented, so the lookup, the creation or the
\* reconciliation is committed by then; a call that is not answered with
\* success, a failed commit among them, leaves the session as it was; and in
\* every state the user id in the session is the id of a row of the table.
C21_SessionAfterCommit ==
    /\ session # None => \E u \in users : u.id = session
    /\ (Authenticating /\ Succeeded)
            => \E u \in users :
                    /\ u.id = session
                    /\ u.id = resp.userId
                    /\ u.firebase_uid = Presented
    /\ (Authenticating /\ ~Succeeded) => session = resp.sessBefore
    /\ (Authenticating /\ (InsertFailed \/ ReconcileFailed))
            => ~Succeeded /\ users = resp.usersBefore

\* C21 happens: register has added a row and then replaced the id another
\* user had left in the session by the id of that row.
C21_Witness ==
    /\ Handled("register")
    /\ resp.found = NoUser
    /\ resp.status = 200
    /\ resp.sessBefore # None
    /\ session # resp.sessBefore
    /\ \E u \in users \ resp.usersBefore : u.id = session

\* C22: a gated request the gate rejects, as Unauthenticated, as
\* InvalidCredential or as UnknownUser, leaves the session and the users
\* table as the request found them and runs no view; the gate never changes
\* the users table; and when the session is changed by a gated request, the
\* gate admitted the request and wrote the id the view runs as.
C22_RejectionsSideEffectFree ==
    /\ (Handled("gate") /\ resp.kind # "view")
            => /\ Unauthenticated \/ InvalidCredential \/ UnknownUser
               /\ resp.userId = None
               /\ session = resp.sessBefore
               /\ users = resp.usersBefore
    /\ Handled("gate") => users = resp.usersBefore
    /\ (Handled("gate") /\ session # resp.sessBefore)
            => /\ resp.kind = "view"
               /\ session = resp.userId

\* C22 happens: with users registered, a token of a subject none of them
\* has was rejected after the verifier and the query had run.
C22_Witness ==
    /\ Handled("gate")
    /\ resp.sessBefore = None
    /\ Verified # None
    /\ resp.verifier
    /\ resp.fault = "none"
    /\ resp.usersBefore # {}
    /\ resp.kind = "json"
    /\ resp.status = 404

----------------------------------------------------------------------------
\* Properties of the upload retry, under UploadSpec.

\* create_resource entered the retry loop: object storage is configured, the
\* file passed the checks and head_bucket answered.
Retrying == Uploading /\ resp.head = "ok"

\* The positions of the upload attempts in the run of the loop.
AttemptsAt == {i \in DOMAIN resp.log : resp.log[i] # Sleep1}

----------------------------------------------------------------------------
\* PUT and DELETE /api/resources/<id> (application.py 746-794).  Of the
\* columns update_resource writes (is_available, price, description), each
\* by the same two lines, the model keeps is_available.

\* request.json of a PUT: no JSON body, a body without the key, or a body
\* with a value for it.
NoPatch == [json |-> FALSE, has |-> FALSE, is_available |-> FALSE]
EmptyPatch == [json |-> TRUE, has |-> FALSE, is_available |-> FALSE]
Patches ==
    {NoPatch, EmptyPatch}
        \cup {[json |-> TRUE, has |-> TRUE, is_available |-> v] :
                    v \in BOOLEAN}

\* Resource.query.get(resource_id): the rows with this primary key
Get(resource_id) == {r \in resources : r.id = resource_id}

\* What update_resource and delete_resource return and the resources table
\* they leave.
MutationResult(ret, rows) == [resp |-> ret, rows |-> rows]

\* lines 758-765: the keys of the body are copied to the row
Patched(resource, data) ==
    IF data.has THEN [resource EXCEPT !.is_available = data.is_available]
    ELSE resource

update_resource_NoOwnerCheck(userId, resource_id, data, fault) ==
    IF fault = "query"
    THEN MutationResult(Json(500, "str(e)"), resources)
    ELSE IF Get(resource_id) = {}
    THEN MutationResult(Json(404, "Resource not found"), resources)
    ELSE LET resource == CHOOSE r \in Get(resource_id) : TRUE
         IN  IF ~data.json \/ fault = "commit"
             THEN MutationResult(Json(500, "str(e)"), resources)
             ELSE MutationResult(
                    Json(200, "Resource updated successfully"),
                    (resources \ {resource})
                        \cup {Patched(resource, data)})

\* lines 748-773; userId is session['user_id'] as the gate left it
update_resource(userId, resource_id, data, fault) ==
    IF fault = "query"
    THEN MutationResult(Json(500, "str(e)"), resources)
    ELSE IF Get(resource_id) = {}
    THEN MutationResult(Json(404, "Resource not found"), resources)
    ELSE LET resource == CHOOSE r \in Get(resource_id) : TRUE
         IN  IF resource.owner_id # userId
             THEN MutationResult(Json(403, "Unauthorized"), resources)
             \* 'is_available' in data raises when there is no JSON body;
             \* the commit raises
             ELSE IF ~data.json \/ fault = "commit"
             THEN MutationResult(Json(500, "str(e)"), resources)
             ELSE MutationResult(
                    Json(200, "Resource updated successfully"),
                    (resources \ {resource})
                        \cup {Patched(resource, data)})

\* lines 777-794
delete_resource(userId, resource_id, fault) ==
    IF fault = "query"
    THEN MutationResult(Json(500, "str(e)"), resources)
    ELSE IF Get(resource_id) = {}
    THEN MutationResult(Json(404, "Resource not found"), resources)
    ELSE LET resource == CHOOSE r \in Get(resource_id) : TRUE
         IN  IF resource.owner_id # userId
             THEN MutationResult(Json(403, "Unauthorized"), resources)
             ELSE IF fault = "commit"
             THEN MutationResult(Json(500, "str(e)"), resources)
             ELSE MutationResult(
                    Json(200, "Resource deleted successfully"),
                    resources \ {resource})

\* The request of update_resource and delete_resource: the Authorization
\* header, the id in the path and the body.
MutationRequest(op, h, rid, data) ==
    [op |-> op, method |-> IF op = "update" THEN "PUT" ELSE "DELETE",
     hdr |-> h, rid |-> rid, data |-> data, isJson |-> data.json,
     apiPath |-> TRUE]

\* Two users have registered; there is no listing yet and no object
\* storage.
OwnerInit ==
    /\ users = {[id |-> 1, email |-> 1, firebase_uid |-> 1],
                [id |-> 2, email |-> 2, firebase_uid |-> 2]}
    /\ session = None
    /\ devMode = FALSE
    /\ gateId = None
    /\ rewritten = FALSE
    /\ pc = "idle"
    /\ req = NoRequest
    /\ resp = NoResponse
    /\ NoUploads
    /\ calls = [c \in Clients |-> NoCall]

\* The client asks to change or to delete a listing.
SendMutation(op, h, rid, data) ==
    /\ pc = "idle"
    /\ op = "delete" => data = NoPatch
    /\ req' = MutationRequest(op, h, rid, data)
    /\ pc' = "pending"
    /\ UNCHANGED <<users, session, devMode, gateId, rewritten, resp,
                   uploadVars, calls>>

\* PUT and DELETE /api/resources/<id>, from the gate to the response.
MutationRequestHandled(fault) ==
    /\ pc = "pending"
    /\ req.op \in {"update", "delete"}
    /\ \E user \in First(FilterByUid(VerifyIdToken(req.hdr.token))) :
        LET g == LoginRequired(session, req.hdr, req.isJson, req.apiPath,
                               "none", user)
            m == IF g.resp # CallView THEN MutationResult(g.resp, resources)
                 ELSE IF req.op = "update"
                 THEN update_resource(g.userId, req.rid, req.data, fault)
                 ELSE delete_resource(g.userId, req.rid, fault)
        IN  /\ session' = SessionSet(session, g.write)
            /\ gateId' = SessionSet(gateId, g.write)
            /\ resources' = m.rows
            /\ resp' = ListingResponse(g, Plain(m.resp), {}, fault, TRUE)
    /\ pc' = "done"
    /\ UNCHANGED <<users, devMode, rewritten, req, files, bucket, s3_client,
                   is_vercel, calls>>

\* The client posts listings without an image, changes and deletes
\* listings, and logs out to come back as the other user.
OwnerNext ==
    \/ /\ pc = "idle"
       /\ NextId(resources) <= MaxResources
       /\ \E h \in {NoHeader, Bearer(1), Bearer(2)} :
                SendCreate(h, NoAttachment, 0, NoContentType, TRUE)
    \/ /\ pc = "idle"
       /\ \E op \in {"update", "delete"},
             h \in {NoHeader, Bearer(1), Bearer(2)},
             rid \in 1..MaxResources, data \in Patches :
                SendMutation(op, h, rid, data)
    \/ Send("logout", "POST", NoHeader, NoBody, TRUE, TRUE)
    \/ CreateRequest(FALSE, TRUE, 0, TRUE, "none")
    \/ \E fault \in Faults : MutationRequestHandled(fault)
    \/ Logout
    \/ Respond

OwnerSpec == OwnerInit /\ [][OwnerNext]_vars

----------------------------------------------------------------------------
\* Properties of update_resource and delete_resource, under OwnerSpec.

\* The gate let the request through to update_resource or delete_resource.
Mutating == pc = "done" /\ req.op \in {"update", "delete"} /\ resp.admitted

\* The listing the request names, as the request found it.
Named == {r \in resp.resourcesBefore : r.id = req.rid}

\* Every listing but the named one is as the request found it.
OthersUntouched ==
    {r \in resources : r.id # req.rid}
        = {r \in resp.resourcesBefore : r.id # req.rid}

\* C24: whatever requests came before, a PUT or DELETE of a listing changes
\* the resources table only when the session's user id is the owner id of
\* the named listing, and then changes that listing only; with the database
\* answering, a request of a user who is not the owner gets 403 and one for
\* an id without a listing gets 404, and either leaves the resources table,
\* the disk and the bucket as it found them.
C24_OwnerOnly ==
    /\ (pc = "done" /\ req.op \in {"update", "delete"})
            => /\ files = resp.filesBefore
               /\ bucket = resp.bucketBefore
               /\ OthersUntouched
               /\ resources # resp.resourcesBefore
                    => /\ resp.admitted
                       /\ resp.status = 200
                       /\ session = resp.userId
                       /\ \E r \in Named : r.owner_id = session
    /\ (Mutating /\ resp.fault = "none"
            /\ \E r \in Named : r.owner_id # resp.userId)
            => /\ resp.status = 403
               /\ resources = resp.resourcesBefore
    /\ (Mutating /\ resp.fault = "none" /\ Named = {})
            => /\ resp.status = 404
               /\ resources = resp.resourcesBefore

\* C24 happens: a user asked to delete the listing of the other user and
\* got 403, and the listing is still there.
C24_Witness ==
    /\ Mutating
    /\ req.op = "delete"
    /\ resp.status = 403
    /\ \E r \in resources :
            r.id = req.rid /\ r.owner_id # session /\ session # None

====
